---- MODULE Spec2Model ----
(***************************************************************************)
(* Multimodal mental-health assessment server: the in-memory session       *)
(* store, the real-time event handlers, the PHQ-9 voice submission and     *)
(* the pure scoring / aggregation functions it uses.                       *)
(*                                                                         *)
(* Conventions of the model                                                *)
(*   - a text is a sequence of one-character strings, so that lower(),     *)
(*     strip() and the `in` substring test are computed, not assumed;      *)
(*   - a polarity or subjectivity is the float multiplied by 10, so the    *)
(*     thresholds -0.3 and 0.3 of the code are -3 and 3;                   *)
(*   - None is the string "None" where the value is otherwise a string;    *)
(*     an optional number or record is Absent or Some(v);                  *)
(*   - a heart rate metric is the float in tenths, rounded down: every     *)
(*     comparison of the code on a metric is a strict one with a whole     *)
(*     number, and has the same outcome on the tenths.                     *)
(***************************************************************************)
EXTENDS Integers, Sequences, FiniteSets, TLC

VARIABLES
    \* ---- response scoring (app.py 280-300), one response at a time
    response_text,      \* the text of the response being scored
    sentiment,          \* Some(result of analyze_sentiment), Absent if not called
    score,              \* Some(item score), Absent before scoring
    \* ---- aggregate_vocal_emotions (vocal and linguistic module 187-193)
    vocal_timeline,     \* the argument
    dominant_vocal,     \* the returned label, None before the call
    \* ---- generate_recommendations (app.py 520-611)
    assessment,         \* the Assessment handed to generate_recommendations
    severity,           \* the returned severity band, None before the call
    recommendations,    \* the returned text as its sequence of lines
    \* ---- the scoring loop of the submission (app.py 275-306)
    responses,          \* voice_data['responses']
    scored,             \* Some(assessment after the loop), Absent before
    \* ---- the stress classification (cardiovascular.py 64-96)
    metrics,            \* the HRV metrics being classified
    stress,             \* Some(the returned dict), Absent before
    \* ---- analyze_cardiovascular_stress (cardiovascular.py 5-96)
    csv_file,           \* the file at csv_path
    cv_done,            \* TRUE once the function has returned
    cv_result,          \* the returned dict as Some(..), None as Absent
    \* ---- the server (app.py)
    now,                \* int(time.time())
    active_sessions,    \* session id -> the session dict, by its index in objects
    objects,            \* the session dicts ever created, in creation order
    cookie,             \* per user, session['assessment_session_id'] or Absent
    req,                \* the POST /assessment requests in progress
    ev,                 \* the socket event handlers in progress
    db,                 \* the committed Assessment rows
    out                 \* what the last handler step sent to its caller

scoreVars == <<response_text, sentiment, score>>
vocalVars == <<vocal_timeline, dominant_vocal>>
recVars == <<assessment, severity, recommendations>>
loopVars == <<responses, scored>>
stressVars == <<metrics, stress>>
cardioVars == <<csv_file, cv_done, cv_result>>
serverVars == <<now, active_sessions, objects, cookie, req, ev, db, out>>
vars == <<scoreVars, vocalVars, recVars, loopVars, stressVars, cardioVars,
          serverVars>>

None == "None"
Absent == <<>>
Some(v) == <<v>>
Value(opt) == opt[1]

(***************************************************************************)
(* Bounds                                                                  *)
(***************************************************************************)
\* number of vocabulary words joined into one response text
MaxWords == 2
\* length of a vocal timeline handed to aggregate_vocal_emotions
MaxVocalLen == 4
\* number of responses in a submitted payload (the loop scores nine)
MaxResponses == 10
\* clock seconds that pass
MaxClock == 1
\* session dicts created
MaxSessions == 2
\* elements appended to the timelines of all sessions, per socket handler
MaxEvents == 1
\* rows committed
MaxAssessments == 2
\* data rows of a heart rate file
MaxSamples == 3

(***************************************************************************)
(* Texts                                                                   *)
(***************************************************************************)
UpperChars ==
    <<"A", "B", "C", "D", "E", "F", "G", "H", "I", "J", "K", "L", "M", "N", "O", "P", "Q", "R", "S", "T", "U", "V", "W", "X", "Y", "Z">>

LowerChars ==
    <<"a", "b", "c", "d", "e", "f", "g", "h", "i", "j", "k", "l", "m", "n", "o", "p", "q", "r", "s", "t", "u", "v", "w", "x", "y", "z">>

\* str.lower() on one character (ASCII letters)
LowerChar(c) ==
    IF \E k \in 1..Len(UpperChars) : UpperChars[k] = c
    THEN LowerChars[CHOOSE k \in 1..Len(UpperChars) : UpperChars[k] = c]
    ELSE c

\* str.lower()
Lower(text) == [k \in 1..Len(text) |-> LowerChar(text[k])]

IsLetter(c) == \E k \in 1..Len(LowerChars) : LowerChars[k] = c \/ UpperChars[k] = c

\* word occurs in text as a whole word, not inside a longer one
ContainsWord(text, word) ==
    \E off \in 0..(Len(text) - Len(word)) :
        /\ \A k \in 1..Len(word) : text[off + k] = word[k]
        /\ off > 0 => ~IsLetter(text[off])
        /\ off + Len(word) < Len(text) => ~IsLetter(text[off + Len(word) + 1])

\* Python `word in text` for strings: word occurs as a contiguous substring
Contains(text, word) ==
    \E off \in 0..(Len(text) - Len(word)) :
        \A k \in 1..Len(word) : text[off + k] = word[k]

Whitespace == {" ", "\t", "\n", "\r"}

\* `not text.strip()`: nothing is left once the whitespace is stripped
IsBlank(text) == \A k \in 1..Len(text) : text[k] \in Whitespace

\* ' '.join(words)
RECURSIVE JoinSpace(_)
JoinSpace(words) ==
    IF Len(words) = 0 THEN <<>>
    ELSE IF Len(words) = 1 THEN words[1]
    ELSE words[1] \o <<" ">> \o JoinSpace(Tail(words))

(***************************************************************************)
(* Keyword buckets of the scoring cascade                                  *)
(***************************************************************************)
Bucket0 ==
    << <<"n", "e", "v", "e", "r">>,
       <<"n", "o", "t", " ", "a", "t", " ", "a", "l", "l">>,
       <<"r", "a", "r", "e", "l", "y">>,
       <<"n", "o">>,
       <<"n", "o", "n", "e">> >>

Bucket1 ==
    << <<"s", "o", "m", "e", "t", "i", "m", "e", "s">>,
       <<"o", "c", "c", "a", "s", "i", "o", "n", "a", "l", "l", "y">>,
       <<"a", " ", "f", "e", "w">>,
       <<"o", "n", "c", "e">> >>

Bucket2 ==
    << <<"o", "f", "t", "e", "n">>,
       <<"f", "r", "e", "q", "u", "e", "n", "t", "l", "y">>,
       <<"m", "a", "n", "y">>,
       <<"s", "e", "v", "e", "r", "a", "l">> >>

Bucket3 ==
    << <<"a", "l", "w", "a", "y", "s">>,
       <<"e", "v", "e", "r", "y", " ", "d", "a", "y">>,
       <<"c", "o", "n", "s", "t", "a", "n", "t", "l", "y">>,
       <<"a", "l", "l", " ", "t", "h", "e", " ", "t", "i", "m", "e">>,
       <<"d", "a", "i", "l", "y">> >>

\* any(word in response_text for word in bucket)
AnyWordIn(bucket, text) == \E k \in 1..Len(bucket) : Contains(text, bucket[k])

(***************************************************************************)
(* analyze_sentiment                                                       *)
(***************************************************************************)
\* polarity in [-1, 1] and subjectivity in [0, 1], times 10: the values a
\* TextBlob call is taken to return (both sides of each threshold, the
\* thresholds themselves, the extremes and 0)
PolarityValues == {-10, -4, -3, 0, 3, 4, 10}
SubjectivityValues == {5}

EmptyTextSentiment == [polarity |-> 2, subjectivity |-> 2]
FailedSentiment == [polarity |-> 0, subjectivity |-> 0]

\* what the TextBlob call inside analyze_sentiment comes to: it returns a
\* polarity and a subjectivity, or it raises
TextBlobReturns(p, s) == [raised |-> FALSE, polarity |-> p, subjectivity |-> s]
TextBlobRaises == [raised |-> TRUE, polarity |-> 0, subjectivity |-> 0]

TextBlobResults ==
    {TextBlobReturns(p, s) : p \in PolarityValues, s \in SubjectivityValues}
    \cup {TextBlobRaises}

\* analyze_sentiment, lines 171-184, when the TextBlob call comes to blob
analyze_sentiment(text, blob) ==
    IF IsBlank(text) THEN EmptyTextSentiment
    ELSE IF blob.raised THEN FailedSentiment
    ELSE [polarity |-> blob.polarity, subjectivity |-> blob.subjectivity]

\* the results analyze_sentiment(text) can return when the TextBlob call
\* comes to one of textblob
AnalyzeSentiment(text, textblob) ==
    {analyze_sentiment(text, blob) : blob \in textblob}

(***************************************************************************)
(* Scoring of one response: the body of the loop of                        *)
(* process_voice_assessment_submission                                     *)
(***************************************************************************)
\* the fallback when no bucket matches
SentimentScore(sent) ==
    IF sent.polarity < -3 THEN 2
    ELSE IF sent.polarity > 3 THEN 0
    ELSE 1

\* TRUE when the cascade reaches its else branch and calls analyze_sentiment
NeedsSentiment(text) ==
    LET lowered == Lower(text) IN
    /\ ~AnyWordIn(Bucket0, lowered)
    /\ ~AnyWordIn(Bucket1, lowered)
    /\ ~AnyWordIn(Bucket2, lowered)
    /\ ~AnyWordIn(Bucket3, lowered)

\* the cascade with its buckets tested from the last to the first
ScoreResponseReversed(text, sent) ==
    LET lowered == Lower(text) IN
    IF AnyWordIn(Bucket3, lowered) THEN 3
    ELSE IF AnyWordIn(Bucket2, lowered) THEN 2
    ELSE IF AnyWordIn(Bucket1, lowered) THEN 1
    ELSE IF AnyWordIn(Bucket0, lowered) THEN 0
    ELSE SentimentScore(sent)

\* the score of a response text; sent is the result of analyze_sentiment on
\* the lowered text, used only when no bucket matches
ScoreResponse(text, sent) ==
    LET lowered == Lower(text) IN
    IF AnyWordIn(Bucket0, lowered) THEN 0
    ELSE IF AnyWordIn(Bucket1, lowered) THEN 1
    ELSE IF AnyWordIn(Bucket2, lowered) THEN 2
    ELSE IF AnyWordIn(Bucket3, lowered) THEN 3
    ELSE SentimentScore(sent)

(***************************************************************************)
(* Response texts the scoring is exercised on                              *)
(***************************************************************************)
SeqToSet(s) == {s[k] : k \in 1..Len(s)}

Keywords == SeqToSet(Bucket0) \cup SeqToSet(Bucket1)
               \cup SeqToSet(Bucket2) \cup SeqToSet(Bucket3)

OtherWords ==
    { <<"N", "e", "v", "e", "r">>,
      <<"A", "L", "W", "A", "Y", "S">>,
      <<"O", "f", "t", "e", "n">>,
      <<"n", "o", "t", "h", "i", "n", "g">>,
      <<"k", "n", "o", "w">>,
      <<"I">>,
      <<"s", "a", "d">>,
      <<"f", "i", "n", "e">> }

Vocabulary == Keywords \cup OtherWords

ExampleNever ==
    <<"I", " ", "n", "e", "v", "e", "r", " ", "f", "e", "e", "l", " ", "s", "a", "d">>

ExampleAlright ==
    <<"I", " ", "f", "e", "e", "l", " ", "a", "l", "r", "i", "g", "h", "t", ",", " ", "n", "o", "t", "h", "i", "n", "g", " ", "s", "p", "e", "c", "i", "a", "l">>

ResponseTexts ==
    {JoinSpace(ws) : ws \in UNION {[1..n -> Vocabulary] : n \in 1..MaxWords}}
        \cup {<<>>, <<" ">>, ExampleNever, ExampleAlright}

(***************************************************************************)
(* aggregate_vocal_emotions: Counter(timeline).most_common(1)[0][0]        *)
(***************************************************************************)
VocalLabels == {"neutral", "sad", "happy"}

\* number of occurrences of x in the timeline
CountOf(timeline, x) == Cardinality({k \in 1..Len(timeline) : timeline[k] = x})

\* the keys of Counter(timeline) in dict order: every distinct element, in
\* the order of its first occurrence
RECURSIVE CounterKeys(_)
CounterKeys(timeline) ==
    IF timeline = <<>> THEN <<>>
    ELSE LET front == SubSeq(timeline, 1, Len(timeline) - 1)
             last == timeline[Len(timeline)]
             keys == CounterKeys(front)
         IN IF \E k \in 1..Len(keys) : keys[k] = last THEN keys
            ELSE Append(keys, last)

\* the test with which max() replaces its current best element
BeatsBestLast(count, bestCount) == count >= bestCount

BeatsBest(count, bestCount) == count > bestCount

\* most_common(1) is heapq.nlargest(1, items, key=count), that is
\* max(items, key=count): a left-to-right scan that keeps the first maximum
RECURSIVE MaxByCount(_, _, _, _)
MaxByCount(timeline, keys, k, best) ==
    IF k > Len(keys) THEN best
    ELSE IF BeatsBest(CountOf(timeline, keys[k]), CountOf(timeline, best))
         THEN MaxByCount(timeline, keys, k + 1, keys[k])
         ELSE MaxByCount(timeline, keys, k + 1, best)

\* the most frequent label, a tie going to the label that is first in a
\* fixed order of the labels, whatever the order of the timeline
aggregate_vocal_emotions_fixed_tie(timeline) ==
    IF timeline = <<>> THEN "neutral"
    ELSE LET order == <<"sad", "neutral", "happy">>
             top == {k \in 1..Len(order) :
                        /\ CountOf(timeline, order[k]) > 0
                        /\ \A j \in 1..Len(order) :
                              CountOf(timeline, order[j]) <= CountOf(timeline, order[k])}
         IN order[CHOOSE k \in top : \A j \in top : k <= j]

aggregate_vocal_emotions(timeline) ==
    IF timeline = <<>> THEN "neutral"
    ELSE LET keys == CounterKeys(timeline)
         IN MaxByCount(timeline, keys, 2, keys[1])

(***************************************************************************)
(* The Assessment record (models.Assessment, of which only the uses are    *)
(* in the sources): the nine items read 0 until they are set               *)
(***************************************************************************)
NumQuestions == 9

NewAssessment(user_id) ==
    [user_id |-> user_id,
     phq9_q |-> [k \in 1..NumQuestions |-> 0],
     phq9_total |-> 0,
     facial_dominant_emotion |-> None,
     facial_emotion_confidence |-> Absent,
     facial_timeline |-> <<>>,
     emotion_distribution |-> [e \in {} |-> 0],
     vocal_dominant_emotion |-> None,
     transcribed_text |-> <<>>,
     sentiment_polarity |-> Absent,
     sentiment_subjectivity |-> Absent,
     session_duration |-> Absent,
     severity_level |-> None,
     recommendations |-> <<>>]

(***************************************************************************)
(* The scoring loop, lines 275-306.  An element of responses is            *)
(*   [shape |-> "text", response |-> t]    a dict with a 'response' key    *)
(*   [shape |-> "nokey", response |-> <<>>] a dict without it              *)
(*   [shape |-> "notdict", response |-> <<>>] anything without .get        *)
(***************************************************************************)
TextResponse(t) == [shape |-> "text", response |-> t]
NoKeyResponse == [shape |-> "nokey", response |-> <<>>]
NotDictResponse == [shape |-> "notdict", response |-> <<>>]

\* response_data.get('response', '')
GetResponse(response_data) ==
    IF response_data.shape = "text" THEN response_data.response ELSE <<>>

FirstEight(resps) ==
    SubSeq(resps, 1, IF Len(resps) < NumQuestions - 1
                     THEN Len(resps) ELSE NumQuestions - 1)

\* responses[:9]
FirstNine(resps) ==
    SubSeq(resps, 1, IF Len(resps) < NumQuestions THEN Len(resps) ELSE NumQuestions)

\* response_data.get raises AttributeError on an element that is not a dict:
\* in the loop for the first nine, in the transcript join for all of them
ResponsesRaise(resps) == \E k \in 1..Len(resps) : resps[k].shape = "notdict"

\* the scores one pass of the loop body can give to a response
ItemScores(response_data, textblob) ==
    LET lowered == Lower(GetResponse(response_data))
    IN {ScoreResponse(lowered, sent) : sent \in AnalyzeSentiment(lowered, textblob)}

\* the loop from index i (1-based) on; scores[i] is the set of scores the
\* body can give to the i-th response, acc is (new_assessment, total_score)
RECURSIVE ScoreFrom(_, _, _)
ScoreFrom(scores, i, acc) ==
    IF i > Len(scores)
    THEN {[acc.new_assessment EXCEPT !.phq9_total = acc.total_score]}
    ELSE UNION {
           ScoreFrom(scores, i + 1,
               IF i - 1 < NumQuestions
               THEN [new_assessment |->
                         [acc.new_assessment EXCEPT !.phq9_q[i] = sc],
                     total_score |-> acc.total_score + sc]
               ELSE acc) :
           sc \in scores[i]}

\* the assessments the loop can leave, one per outcome of the sentiment calls
ScoreResponses(new_assessment, resps, textblob) ==
    LET first == FirstNine(resps)
    IN ScoreFrom([i \in 1..Len(first) |-> ItemScores(first[i], textblob)], 1,
                 [new_assessment |-> new_assessment, total_score |-> 0])

(***************************************************************************)
(* generate_recommendations                                                *)
(* A line of the text is a tuple of strings, the pieces of its f-string;   *)
(* the non-ASCII marks of the source are written [check], [warning], "*".  *)
(***************************************************************************)
SeverityLoose(phq9_score) ==
    IF phq9_score < 4 THEN "None-Minimal"
    ELSE IF phq9_score <= 9 THEN "Mild"
    ELSE IF phq9_score <= 14 THEN "Moderate"
    ELSE IF phq9_score <= 19 THEN "Moderately Severe"
    ELSE "Severe"

\* lines 525-534
Severity(phq9_score) ==
    IF phq9_score <= 4 THEN "None-Minimal"
    ELSE IF phq9_score <= 9 THEN "Mild"
    ELSE IF phq9_score <= 14 THEN "Moderate"
    ELSE IF phq9_score <= 19 THEN "Moderately Severe"
    ELSE "Severe"

Line(text) == <<text>>
BlankLine == <<"">>

\* str.title() on the emotion labels
Title(label) ==
    CASE label = "sad" -> "Sad"
      [] label = "angry" -> "Angry"
      [] label = "fear" -> "Fear"
      [] label = "disgust" -> "Disgust"
      [] label = "happy" -> "Happy"
      [] label = "surprise" -> "Surprise"
      [] label = "neutral" -> "Neutral"

\* f"{polarity:.2f}" of a polarity given in tenths
Fmt2f(p) ==
    LET mag == IF p < 0 THEN -p ELSE p
    IN <<IF p < 0 THEN "-" ELSE "", ToString(mag \div 10), ".",
         ToString(mag % 10), "0">>

\* the guidance with the crisis lines for the Severe band only
SeverityBlockSevereOnly(a) ==
    IF a.phq9_total <= 4 THEN
        << Line("[check] Your responses suggest minimal or no depression symptoms."),
           Line("Continue healthy habits: exercise, sleep (7-9 hours), social connections."),
           Line("Practice mindfulness and stress management techniques.") >>
    ELSE IF a.phq9_total <= 9 THEN
        << Line("Your responses indicate mild depression symptoms."),
           Line("Lifestyle modifications:"),
           Line("  * Regular physical activity (30 min, 5 days/week)"),
           Line("  * Consistent sleep schedule"),
           Line("  * Balanced diet and hydration"),
           Line("  * Social engagement"),
           Line("Monitor symptoms. Consult professional if they persist beyond 2 weeks.") >>
    ELSE IF a.phq9_total <= 14 THEN
        << Line("[warning] Your responses suggest moderate depression."),
           Line("We recommend consulting a mental health professional."),
           Line("Treatment options:"),
           Line("  * Cognitive Behavioral Therapy (CBT)"),
           Line("  * Counseling or psychotherapy"),
           Line("  * Lifestyle modifications"),
           Line("  * Consider medication evaluation if recommended") >>
    ELSE
        << Line("[warning] IMPORTANT: Your responses indicate significant depression."),
           Line("Please seek professional help immediately:"),
           Line("  * Contact a mental health professional"),
           Line("  * Visit your primary care physician") >>
        \o (IF a.phq9_total > 19 /\ a.phq9_q[9] >= 1 THEN
               << BlankLine,
                  Line("[warning] You indicated thoughts of self-harm. This is serious."),
                  Line("Please reach out immediately to someone you trust or call a crisis helpline.") >>
            ELSE <<>>)

\* lines 539-572
SeverityBlock(a) ==
    IF a.phq9_total <= 4 THEN
        << Line("[check] Your responses suggest minimal or no depression symptoms."),
           Line("Continue healthy habits: exercise, sleep (7-9 hours), social connections."),
           Line("Practice mindfulness and stress management techniques.") >>
    ELSE IF a.phq9_total <= 9 THEN
        << Line("Your responses indicate mild depression symptoms."),
           Line("Lifestyle modifications:"),
           Line("  * Regular physical activity (30 min, 5 days/week)"),
           Line("  * Consistent sleep schedule"),
           Line("  * Balanced diet and hydration"),
           Line("  * Social engagement"),
           Line("Monitor symptoms. Consult professional if they persist beyond 2 weeks.") >>
    ELSE IF a.phq9_total <= 14 THEN
        << Line("[warning] Your responses suggest moderate depression."),
           Line("We recommend consulting a mental health professional."),
           Line("Treatment options:"),
           Line("  * Cognitive Behavioral Therapy (CBT)"),
           Line("  * Counseling or psychotherapy"),
           Line("  * Lifestyle modifications"),
           Line("  * Consider medication evaluation if recommended") >>
    ELSE
        << Line("[warning] IMPORTANT: Your responses indicate significant depression."),
           Line("Please seek professional help immediately:"),
           Line("  * Contact a mental health professional"),
           Line("  * Visit your primary care physician") >>
        \o (IF a.phq9_q[9] >= 1 THEN
               << BlankLine,
                  Line("[warning] You indicated thoughts of self-harm. This is serious."),
                  Line("Please reach out immediately to someone you trust or call a crisis helpline.") >>
            ELSE <<>>)

\* lines 575-582
FacialBlock(a) ==
    IF a.facial_dominant_emotion # None THEN
        << BlankLine,
           Line("--- Facial Expression Analysis ---"),
           <<"Dominant emotion: ", Title(a.facial_dominant_emotion)>> >>
        \o (IF a.facial_dominant_emotion \in {"sad", "angry", "fear", "disgust"}
            THEN << Line("Your facial expressions suggest emotional distress.") >>
            ELSE <<>>)
    ELSE <<>>

\* lines 584-590
VocalBlock(a) ==
    IF a.vocal_dominant_emotion # None THEN
        << BlankLine,
           Line("--- Voice Analysis ---"),
           <<"Vocal emotion: ", Title(a.vocal_dominant_emotion)>> >>
        \o (IF a.vocal_dominant_emotion \in {"sad", "angry", "fear"}
            THEN << Line("Your voice patterns indicate negative emotions.") >>
            ELSE <<>>)
    ELSE <<>>

\* lines 592-600
LanguageBlock(a) ==
    IF a.sentiment_polarity # Absent THEN
        << BlankLine, Line("--- Language Analysis ---") >>
        \o (IF Value(a.sentiment_polarity) < -3 THEN
               << <<"Your language shows negative sentiment (score: ">>
                      \o Fmt2f(Value(a.sentiment_polarity)) \o <<")">>,
                  Line("Consider talking with someone you trust about your feelings.") >>
            ELSE IF Value(a.sentiment_polarity) > 3 THEN
               << <<"Your language shows positive sentiment (score: ">>
                      \o Fmt2f(Value(a.sentiment_polarity)) \o <<")">> >>
            ELSE <<>>)
    ELSE <<>>

\* lines 602-609
WellnessBlock ==
    << BlankLine,
       Line("--- General Wellness Tips ---"),
       Line("* Deep breathing exercises: 5-10 minutes daily"),
       Line("* Limit caffeine and alcohol"),
       Line("* Spend time in nature/sunlight"),
       Line("* Journal your thoughts"),
       Line("* Set small, achievable daily goals") >>

\* the blocks with the wellness tips before the language block
generate_recommendations_wellness_early(a) ==
    [severity |-> Severity(a.phq9_total),
     recommendations |-> SeverityBlock(a) \o FacialBlock(a) \o VocalBlock(a)
                             \o WellnessBlock \o LanguageBlock(a)]

\* the pair (severity, recommendations), the text as its lines
generate_recommendations(a) ==
    [severity |-> Severity(a.phq9_total),
     recommendations |-> SeverityBlock(a) \o FacialBlock(a) \o VocalBlock(a)
                             \o LanguageBlock(a) \o WellnessBlock]

(***************************************************************************)
(* cardiovascular.py                                                       *)
(* A CSV file is its column names and its rows of cells.  A cell is a      *)
(* number, a text that is not one, or empty.  The heart rates are whole    *)
(* beats per minute that divide 60000, so that the RR intervals are whole  *)
(* milliseconds.                                                           *)
(***************************************************************************)
NumCell(v) == [kind |-> "num", v |-> v]
TextCell == [kind |-> "text", v |-> 0]
EmptyCell == [kind |-> "empty", v |-> 0]

\* the column dict of pandas: first index of each name
ColumnIndex(columns, name) ==
    CHOOSE k \in 1..Len(columns) :
        /\ columns[k] = name
        /\ \A j \in 1..(k - 1) : columns[j] # name

HeartRateName == <<"h", "e", "a", "r", "t", "_", "r", "a", "t", "e">>
HeartWord == <<"h", "e", "a", "r", "t">>
BpmWord == <<"b", "p", "m">>

\* lines 10-14: the index of the column that becomes df['heart_rate'], 0
\* when there is none
DiscoverColumn(columns) ==
    IF \E k \in 1..Len(columns) : columns[k] = HeartRateName
    THEN ColumnIndex(columns, HeartRateName)
    ELSE LET hits == {k \in 1..Len(columns) :
                         \/ Contains(Lower(columns[k]), HeartWord)
                         \/ Contains(Lower(columns[k]), BpmWord)}
         IN IF hits = {} THEN 0
            ELSE CHOOSE k \in hits : \A j \in hits : k <= j

\* the values of the numeric cells, in order
RECURSIVE SelectNumeric(_)
SelectNumeric(cells) ==
    IF cells = <<>> THEN <<>>
    ELSE (IF Head(cells).kind = "num" THEN <<Head(cells).v>> ELSE <<>>)
         \o SelectNumeric(Tail(cells))

\* load_heart_rate_data: Some(the heart_rate column of the frame it
\* returns), Absent for None.  read_csv raises on an unreadable file and
\* dropna raises KeyError without a heart_rate column; both are caught at
\* line 22.  Lines 16-18 drop the empty cells and those to_numeric coerces
\* to NaN.
load_heart_rate_data(file) ==
    IF ~file.readable THEN Absent
    ELSE LET col == DiscoverColumn(file.columns) IN
         IF col = 0 THEN Absent
         ELSE Some(SelectNumeric([i \in 1..Len(file.rows) |-> file.rows[i][col]]))

RECURSIVE SumOf(_)
SumOf(seq) == IF seq = <<>> THEN 0 ELSE Head(seq) + SumOf(Tail(seq))

RECURSIVE MaxOf(_)
MaxOf(seq) ==
    IF Len(seq) = 1 THEN Head(seq)
    ELSE LET rest == MaxOf(Tail(seq))
         IN IF Head(seq) > rest THEN Head(seq) ELSE rest

RECURSIVE MinOf(_)
MinOf(seq) ==
    IF Len(seq) = 1 THEN Head(seq)
    ELSE LET rest == MinOf(Tail(seq))
         IN IF Head(seq) < rest THEN Head(seq) ELSE rest

\* the largest r in lo..hi with r * r <= x
RECURSIVE SqrtBetween(_, _, _)
SqrtBetween(x, lo, hi) ==
    IF lo = hi THEN lo
    ELSE LET mid == (lo + hi + 1) \div 2
         IN IF mid * mid <= x THEN SqrtBetween(x, mid, hi)
            ELSE SqrtBetween(x, lo, mid - 1)

\* floor of the square root
SqrtFloor(x) == SqrtBetween(x, 0, 46340)

\* lines 32-48 on at least two samples: the metrics in tenths.  With n
\* samples and m = n - 1 successive differences,
\*   sdnn = sqrt(n * sum(rr^2) - sum(rr)^2) / n,  rmssd = sqrt(sum(d^2) / m)
HrvMetrics(heart_rates) ==
    LET n == Len(heart_rates)
        m == n - 1
        rr_intervals == [i \in 1..n |-> 60000 \div heart_rates[i]]
        successive_diffs == [i \in 1..m |-> rr_intervals[i + 1] - rr_intervals[i]]
        squares == [i \in 1..n |-> rr_intervals[i] * rr_intervals[i]]
        diff_squares == [i \in 1..m |-> successive_diffs[i] * successive_diffs[i]]
        spread == n * SumOf(squares) - SumOf(rr_intervals) * SumOf(rr_intervals)
        nn50 == Cardinality({i \in 1..m : successive_diffs[i] > 50
                                          \/ successive_diffs[i] < -50})
    IN [sdnn |-> SqrtFloor(100 * spread) \div n,
        rmssd |-> SqrtFloor(100 * m * SumOf(diff_squares)) \div m,
        pnn50 |-> (1000 * nn50) \div m,
        mean_hr |-> (10 * SumOf(heart_rates)) \div n,
        max_hr |-> 10 * MaxOf(heart_rates),
        min_hr |-> 10 * MinOf(heart_rates),
        hr_range |-> 10 * (MaxOf(heart_rates) - MinOf(heart_rates))]

\* a zero-filled block in place of None for fewer than two samples
calculate_hrv_metrics_zeroed(heart_rates) ==
    IF Len(heart_rates) < 2
    THEN Some([sdnn |-> 0, rmssd |-> 0, pnn50 |-> 0, mean_hr |-> 0,
               max_hr |-> 0, min_hr |-> 0, hr_range |-> 0])
    ELSE Some(HrvMetrics(heart_rates))

\* calculate_hrv_metrics, lines 27-48: Some(metrics), Absent for None
calculate_hrv_metrics(heart_rates) ==
    IF Len(heart_rates) < 2 THEN Absent
    ELSE Some(HrvMetrics(heart_rates))

\* the classification with the RMSSD test skipped when the mean HR scored
StressResultChained(m, data_points) ==
    LET hr_score == IF m.mean_hr > 900 THEN 3
                    ELSE IF m.mean_hr > 800 THEN 2 ELSE 0
        rmssd_score == IF hr_score > 0 THEN 0
                       ELSE IF m.rmssd < 150 THEN 3
                       ELSE IF m.rmssd < 250 THEN 2 ELSE 0
        sdnn_score == IF m.sdnn < 400 THEN 2 ELSE 0
        stress_score == hr_score + rmssd_score + sdnn_score
    IN [metrics |-> m,
        stress_score |-> stress_score,
        stress_level |-> IF stress_score >= 7 THEN "High"
                         ELSE IF stress_score >= 4 THEN "Moderate"
                         ELSE "Low",
        stress_indicators |->
            (IF m.mean_hr > 900
             THEN << <<"Elevated mean HR (", m.mean_hr, " BPM)">> >>
             ELSE <<>>)
            \o (IF hr_score = 0 /\ m.rmssd < 150
                THEN << <<"Very low HRV (RMSSD: ", m.rmssd, " ms)">> >>
                ELSE <<>>)
            \o (IF m.sdnn < 400
                THEN << <<"Low SDNN (", m.sdnn, " ms)">> >>
                ELSE <<>>),
        data_points |-> data_points]

\* lines 64-96 of analyze_cardiovascular_stress: the dict returned for the
\* metrics m (in tenths) of data_points samples.  An indicator is the
\* pieces of its f-string, the metric it formats standing unformatted
StressResult(m, data_points) ==
    LET hr_score == IF m.mean_hr > 900 THEN 3
                    ELSE IF m.mean_hr > 800 THEN 2 ELSE 0
        rmssd_score == IF m.rmssd < 150 THEN 3
                       ELSE IF m.rmssd < 250 THEN 2 ELSE 0
        sdnn_score == IF m.sdnn < 400 THEN 2 ELSE 0
        stress_score == hr_score + rmssd_score + sdnn_score
    IN [metrics |-> m,
        stress_score |-> stress_score,
        stress_level |-> IF stress_score >= 7 THEN "High"
                         ELSE IF stress_score >= 4 THEN "Moderate"
                         ELSE "Low",
        stress_indicators |->
            (IF m.mean_hr > 900
             THEN << <<"Elevated mean HR (", m.mean_hr, " BPM)">> >>
             ELSE <<>>)
            \o (IF m.rmssd < 150
                THEN << <<"Very low HRV (RMSSD: ", m.rmssd, " ms)">> >>
                ELSE <<>>)
            \o (IF m.sdnn < 400
                THEN << <<"Low SDNN (", m.sdnn, " ms)">> >>
                ELSE <<>>),
        data_points |-> data_points]

\* analyze_cardiovascular_stress, lines 51-96: Some(the dict), Absent for None
analyze_cardiovascular_stress(file) ==
    LET df == load_heart_rate_data(file) IN
    IF df = Absent \/ Len(Value(df)) = 0 THEN Absent
    ELSE LET heart_rates == Value(df)
             m == calculate_hrv_metrics(heart_rates)
         IN IF m = Absent THEN Absent
            ELSE Some(StressResult(Value(m), Len(heart_rates)))

(***************************************************************************)
(* Specification SpecScore: one response text is scored                    *)
(***************************************************************************)
InitScore ==
    /\ response_text \in ResponseTexts
    /\ sentiment = Absent
    /\ score = Absent

ScoreOneResponse ==
    /\ score = Absent
    /\ \E sent \in AnalyzeSentiment(Lower(response_text), TextBlobResults) :
          /\ sentiment' = IF NeedsSentiment(response_text)
                          THEN Some(sent) ELSE Absent
          /\ score' = Some(ScoreResponse(response_text, sent))
    /\ UNCHANGED response_text

ScoreIdle == response_text = <<>> /\ sentiment = Absent /\ score = Absent

(***************************************************************************)
(* Specification SpecVocal: one vocal timeline is aggregated               *)
(***************************************************************************)
VocalTimelines == UNION {[1..n -> VocalLabels] : n \in 0..MaxVocalLen}

InitVocal ==
    /\ vocal_timeline \in VocalTimelines
    /\ dominant_vocal = None

AggregateVocal ==
    /\ dominant_vocal = None
    /\ dominant_vocal' = aggregate_vocal_emotions(vocal_timeline)
    /\ UNCHANGED vocal_timeline

VocalIdle == vocal_timeline = <<>> /\ dominant_vocal = None

(***************************************************************************)
(* Specification SpecRecommend: recommendations for one assessment         *)
(***************************************************************************)
MaxItemScore == 3

FacialLabels == {"sad", "happy", "neutral"}

\* nine item scores with the given ninth item and the given total: the
\* first eight items are filled from the left
ItemsFor(total, q9) ==
    [k \in 1..NumQuestions |->
        IF k = NumQuestions THEN q9
        ELSE LET rest == total - q9 - MaxItemScore * (k - 1)
             IN IF rest >= MaxItemScore THEN MaxItemScore
                ELSE IF rest > 0 THEN rest ELSE 0]

AssessmentInputs ==
    {[NewAssessment(1) EXCEPT
          !.phq9_q = ItemsFor(total, q9),
          !.phq9_total = total,
          !.facial_dominant_emotion = f,
          !.vocal_dominant_emotion = v,
          !.sentiment_polarity = p] :
       total \in 0..(NumQuestions * MaxItemScore), q9 \in 0..MaxItemScore,
       f \in FacialLabels \cup {None}, v \in VocalLabels \cup {None},
       p \in {Some(x) : x \in PolarityValues \cup {2}} \cup {Absent}}

InitRecommend ==
    /\ assessment \in {a \in AssessmentInputs :
           /\ a.phq9_q[NumQuestions] <= a.phq9_total
           /\ a.phq9_total - a.phq9_q[NumQuestions]
                 <= MaxItemScore * (NumQuestions - 1)}
    /\ severity = None
    /\ recommendations = <<>>

GenerateRecommendations ==
    /\ severity = None
    /\ LET result == generate_recommendations(assessment)
       IN /\ severity' = result.severity
          /\ recommendations' = result.recommendations
    /\ UNCHANGED assessment

RecommendIdle ==
    assessment = NewAssessment(1) /\ severity = None /\ recommendations = <<>>

(***************************************************************************)
(* Specification SpecLoop: the responses of one payload are scored         *)
(***************************************************************************)
\* one response per way through the cascade, and one without the key
ResponseItems ==
    << TextResponse(Bucket0[1]), TextResponse(Bucket1[1]),
       TextResponse(Bucket2[1]), TextResponse(Bucket3[1]),
       TextResponse(<<"f", "i", "n", "e">>), NoKeyResponse >>

\* the list of n responses that starts at item k and advances by step
ResponseList(n, k, step) ==
    [i \in 1..n |->
        ResponseItems[((k + (i - 1) * step) % Len(ResponseItems)) + 1]]

ResponseLists ==
    {ResponseList(n, k, step) :
        n \in 0..MaxResponses,
        k \in 0..(Len(ResponseItems) - 1),
        step \in 0..(Len(ResponseItems) - 1)}

InitLoop ==
    /\ responses \in ResponseLists
    /\ scored = Absent

ScoreLoop ==
    /\ scored = Absent
    /\ ~ResponsesRaise(responses)
    /\ \E a \in ScoreResponses(NewAssessment(1), responses, TextBlobResults) :
          scored' = Some(a)
    /\ UNCHANGED responses

LoopIdle == responses = <<>> /\ scored = Absent

(***************************************************************************)
(* Specification SpecStress: one metrics block is classified               *)
(***************************************************************************)
\* metric values in tenths: both sides of each threshold, the thresholds,
\* and the values 95.0, 10.0 and 30.0
MeanHrValues == {600, 800, 801, 900, 901, 950}
RmssdValues == {0, 100, 149, 150, 249, 250, 500}
SdnnValues == {0, 300, 399, 400, 800}

MetricsInputs ==
    {[sdnn |-> sd, rmssd |-> rm, pnn50 |-> 0, mean_hr |-> hr,
      max_hr |-> hr, min_hr |-> hr, hr_range |-> 0] :
        sd \in SdnnValues, rm \in RmssdValues, hr \in MeanHrValues}

InitStress ==
    /\ metrics \in MetricsInputs
    /\ stress = Absent

ClassifyStress ==
    /\ stress = Absent
    /\ stress' = Some(StressResult(metrics, 2))
    /\ UNCHANGED metrics

StressIdle ==
    /\ metrics = [sdnn |-> 0, rmssd |-> 0, pnn50 |-> 0, mean_hr |-> 0,
                  max_hr |-> 0, min_hr |-> 0, hr_range |-> 0]
    /\ stress = Absent

(***************************************************************************)
(* Specification SpecCardio: one heart rate file is analysed               *)
(***************************************************************************)
\* the header rows of the files
ColumnLayouts ==
    { << <<"t", "i", "m", "e">>, HeartRateName >>,
      << <<"H", "e", "a", "r", "t", "B", "e", "a", "t">>, HeartRateName >>,
      << <<"t", "i", "m", "e">>, <<"H", "e", "a", "r", "t", " ", "R", "a", "t", "e">> >>,
      << <<"a", "v", "g", "_", "B", "P", "M">>, <<"h", "e", "a", "r", "t">> >>,
      << <<"t", "i", "m", "e">>, <<"p", "u", "l", "s", "e">> >> }

\* the cells of the last column; those of the other columns are OtherCell
Cells == {NumCell(100), NumCell(96), NumCell(60), TextCell, EmptyCell}
OtherCell == NumCell(75)

CsvFile(readable, columns, cells) ==
    [readable |-> readable,
     columns |-> columns,
     rows |-> [i \in 1..Len(cells) |->
                  [k \in 1..Len(columns) |->
                      IF k = Len(columns) THEN cells[i] ELSE OtherCell]]]

CsvFiles ==
    {CsvFile(readable, columns, cells) :
        readable \in BOOLEAN, columns \in ColumnLayouts,
        cells \in UNION {[1..n -> Cells] : n \in 0..MaxSamples}}

InitCardio ==
    /\ csv_file \in CsvFiles
    /\ cv_done = FALSE
    /\ cv_result = Absent

AnalyzeCardiovascular ==
    /\ ~cv_done
    /\ cv_done' = TRUE
    /\ cv_result' = analyze_cardiovascular_stress(csv_file)
    /\ UNCHANGED csv_file

CardioIdle ==
    /\ csv_file = CsvFile(FALSE, <<>>, <<>>)
    /\ cv_done = FALSE
    /\ cv_result = Absent

(***************************************************************************)
(* The session store, lines 60-97                                          *)
(***************************************************************************)
\* the logged-in users, the POST /assessment requests that can be in
\* progress together, and the socket event handlers that can be
Users == {1}
Requests == {"A", "B"}
Handlers == {"h"}
\* the same when the interleaving of the socket handlers is looked at: one
\* request, two handlers
EventRequests == {"A"}
EventHandlers == {"h", "g"}

\* f"{user_id}_{int(time.time())}": the two integers are recoverable from
\* the string, so the id is the pair; a missing or None id is Absent
SessionId(user_id, t) == <<user_id, t>>

SessionIds == {SessionId(u, t) : u \in Users, t \in 0..MaxClock}

NewSessionData(user_id, start_time) ==
    [user_id |-> user_id,
     start_time |-> start_time,
     facial_timeline |-> <<>>,
     vocal_timeline |-> <<>>,
     audio_chunks |-> <<>>,
     transcribed_texts |-> <<>>,
     voice_responses |-> <<>>,
     has_cardiovascular |-> FALSE,
     cv_data |-> None]

\* d[key] = value on a dict
DictSet(d, key, value) ==
    [k \in DOMAIN d \cup {key} |-> IF k = key THEN value ELSE d[k]]

\* del d[key]
DictDel(d, key) == [k \in DOMAIN d \ {key} |-> d[k]]

\* create_session_data: the store and the heap after the call, which
\* returns SessionId(user_id, now)
create_session_data(user_id) ==
    LET session_id == SessionId(user_id, now) IN
    /\ objects' = Append(objects, NewSessionData(user_id, now))
    /\ active_sessions' = DictSet(active_sessions, session_id, Len(objects) + 1)

\* a clear that leaves the store as it is
ClearSkipped(sessions, session_id) == sessions

\* clear_session_data: the store after the call
clear_session_data(sessions, session_id) ==
    IF session_id \in DOMAIN sessions THEN DictDel(sessions, session_id)
    ELSE sessions

\* `not session_id or session_id not in active_sessions`
NoSuchSession(session_id) ==
    session_id = Absent \/ session_id \notin DOMAIN active_sessions

\* number of elements appended to the timelines of all session dicts
RECURSIVE EventsIn(_)
EventsIn(objs) ==
    IF objs = <<>> THEN 0
    ELSE Len(Head(objs).facial_timeline) + Len(Head(objs).vocal_timeline)
           + Len(Head(objs).transcribed_texts) + EventsIn(Tail(objs))

IdleRequest == [pc |-> "idle", user |-> 0, session_id |-> Absent,
                session_data |-> 0, new_assessment |-> Absent]

IdleHandler == [pc |-> "idle", kind |-> None, session_id |-> Absent,
                session_data |-> 0, timestamp |-> 0, data |-> <<>>]

InitServer ==
    /\ now = 0
    /\ active_sessions = [id \in {} |-> 0]
    /\ objects = <<>>
    /\ cookie = [u \in Users |-> Absent]
    /\ req = [r \in Requests |-> IdleRequest]
    /\ ev = [h \in Handlers |-> IdleHandler]
    /\ db = <<>>
    /\ out = "none"

\* the clock second changes
Tick ==
    /\ now < MaxClock
    /\ now' = now + 1
    /\ UNCHANGED <<active_sessions, objects, cookie, req, ev, db, out>>

\* GET /assessment, lines 243-249
StartAssessment(u) ==
    /\ Len(objects) < MaxSessions
    /\ create_session_data(u)
    /\ cookie' = [cookie EXCEPT ![u] = SessionId(u, now)]
    /\ out' = "render:assessment_voice.html"
    /\ UNCHANGED <<now, req, ev, db>>

\* socket event join_assessment, lines 380-389
JoinAssessment(session_id) ==
    /\ out' = IF ~NoSuchSession(session_id)
              THEN "emit:joined_session"
              ELSE "emit:error"
    /\ UNCHANGED <<now, active_sessions, objects, cookie, req, ev, db>>

(***************************************************************************)
(* Socket event handlers, lines 392-490.  A handler is two steps: up to    *)
(* the call of the external capability, and from its return on.            *)
(***************************************************************************)
\* what analyze_base64_frame can return: a result dict, or nothing when no
\* face is found; it can also raise
FacialResults ==
    {[dominant_emotion |-> e, confidence |-> c] : e \in {"sad"}, c \in {8}}

\* what the decoding, the feature extraction and the classifier inside
\* analyze_audio_chunk come to: a predicted label, or a failure (an
\* exception, no features, no model loaded)
AudioPredicted(label) == [failed |-> FALSE, label |-> label]
AudioFailed == [failed |-> TRUE, label |-> None]
AudioOutcomes == {AudioFailed, AudioPredicted("sad")}

\* a failure handed on as None
analyze_audio_chunk_none(outcome) ==
    IF outcome.failed THEN None ELSE outcome.label

\* analyze_audio_chunk, lines 120-150: "neutral" on every failure
analyze_audio_chunk(outcome) ==
    IF outcome.failed THEN "neutral" ELSE outcome.label

VocalResults == {analyze_audio_chunk(outcome) : outcome \in AudioOutcomes}

\* data.get('timestamp', 0) of a frame (that of an audio chunk or a text is
\* only echoed to the client)
Timestamps == {0, 1}

\* data.get('text'): a string, or None when the key is missing
NoText == [none |-> TRUE, chars |-> <<>>]
TextArg(t) == [none |-> FALSE, chars |-> t]
EventTexts == {NoText, TextArg(<<"s", "a", "d">>)}

\* the handlers that have passed the session check and not yet returned
Analyzing == {h \in DOMAIN ev : ev[h].pc = "analyzing"}

\* room for one more timeline element, MaxEvents for each handler there is
EventBudget ==
    EventsIn(objects) + Cardinality(Analyzing) < MaxEvents * Cardinality(DOMAIN ev)

\* lines 396-403, 427-434: the handler returns when the session is unknown,
\* otherwise it holds the session dict and calls the classifier
EventBegin(h, kind, session_id, timestamp) ==
    /\ ev[h].pc = "idle"
    /\ IF NoSuchSession(session_id)
       THEN ev' = ev
       ELSE /\ EventBudget
            /\ ev' = [ev EXCEPT ![h] =
                        [pc |-> "analyzing", kind |-> kind,
                         session_id |-> session_id,
                         session_data |-> active_sessions[session_id],
                         timestamp |-> timestamp, data |-> <<>>]]
    /\ out' = "none"
    /\ UNCHANGED <<now, active_sessions, objects, cookie, req, db>>

VideoFrameBegin(h, session_id, timestamp) ==
    EventBegin(h, "video_frame", session_id, timestamp)

AudioChunkBegin(h, session_id) ==
    EventBegin(h, "audio_chunk", session_id, 0)

\* the result put at the head of the timeline
VideoFrameEndPrepends(h) ==
    /\ ev[h].pc = "analyzing" /\ ev[h].kind = "video_frame"
    /\ \E result \in FacialResults :
          objects' = [objects EXCEPT ![ev[h].session_data].facial_timeline =
                        <<[dominant_emotion |-> result.dominant_emotion,
                           confidence |-> result.confidence,
                           timestamp |-> ev[h].timestamp]>> \o @]
    /\ out' = "emit:facial_emotion"
    /\ ev' = [ev EXCEPT ![h] = IdleHandler]
    /\ UNCHANGED <<now, active_sessions, cookie, req, db>>

\* lines 406-417, with the frame classified as result
VideoFrameEnd(h) ==
    /\ ev[h].pc = "analyzing" /\ ev[h].kind = "video_frame"
    /\ \E result \in FacialResults :
          objects' = [objects EXCEPT ![ev[h].session_data].facial_timeline =
                        Append(@, [dominant_emotion |-> result.dominant_emotion,
                                   confidence |-> result.confidence,
                                   timestamp |-> ev[h].timestamp])]
    /\ out' = "emit:facial_emotion"
    /\ ev' = [ev EXCEPT ![h] = IdleHandler]
    /\ UNCHANGED <<now, active_sessions, cookie, req, db>>

\* lines 406-408, 419-420: no face in the frame, or the classifier raises
VideoFrameNoResult(h) ==
    /\ ev[h].pc = "analyzing" /\ ev[h].kind = "video_frame"
    /\ out' = "none"
    /\ ev' = [ev EXCEPT ![h] = IdleHandler]
    /\ UNCHANGED <<now, active_sessions, objects, cookie, req, db>>

\* lines 437-447, when the analysis of the chunk comes to outcome
AudioChunkReturns(h, outcome) ==
    /\ ev[h].pc = "analyzing" /\ ev[h].kind = "audio_chunk"
    /\ LET vocal_emotion == analyze_audio_chunk(outcome) IN
       objects' = [objects EXCEPT
                     ![ev[h].session_data].vocal_timeline = Append(@, vocal_emotion),
                     ![ev[h].session_data].audio_chunks = Append(@, "audio")]
    /\ out' = "emit:vocal_emotion"
    /\ ev' = [ev EXCEPT ![h] = IdleHandler]
    /\ UNCHANGED <<now, active_sessions, cookie, req, db>>

AudioChunkEnd(h) == \E outcome \in AudioOutcomes : AudioChunkReturns(h, outcome)

\* lines 457-467: the text is stored before its sentiment is analysed
AnalyzeTextBegin(h, session_id, text) ==
    /\ ev[h].pc = "idle"
    /\ IF NoSuchSession(session_id)
       THEN UNCHANGED <<ev, objects>>
       ELSE /\ EventBudget
            /\ objects' = [objects EXCEPT
                   ![active_sessions[session_id]].transcribed_texts = Append(@, text)]
            /\ ev' = [ev EXCEPT ![h] =
                        [pc |-> "analyzing", kind |-> "analyze_text",
                         session_id |-> session_id,
                         session_data |-> active_sessions[session_id],
                         timestamp |-> 0, data |-> text]]
    /\ out' = "none"
    /\ UNCHANGED <<now, active_sessions, cookie, req, db>>

\* lines 470-490: analyze_sentiment returns (a failure inside it included)
\* and the result is sent; a None text raises in text.strip() and the
\* handler only logs
AnalyzeTextEnd(h) ==
    /\ ev[h].pc = "analyzing" /\ ev[h].kind = "analyze_text"
    /\ out' = IF ev[h].data.none THEN "none" ELSE "emit:sentiment_result"
    /\ ev' = [ev EXCEPT ![h] = IdleHandler]
    /\ UNCHANGED <<now, active_sessions, objects, cookie, req, db>>

(***************************************************************************)
(* aggregate_emotions (facial_analysis, of which only the call is in the   *)
(* sources): the most frequent label, ties broken by the larger summed     *)
(* confidence and then by the first occurrence; the mean confidence of     *)
(* the dominant label as the pair (sum, count); the percentage of each     *)
(* label, the rounding remainder going to the dominant one                 *)
(***************************************************************************)
RECURSIVE SumConfidence(_, _)
SumConfidence(timeline, label) ==
    IF timeline = <<>> THEN 0
    ELSE (IF Head(timeline).dominant_emotion = label
          THEN Head(timeline).confidence ELSE 0)
         + SumConfidence(Tail(timeline), label)

RECURSIVE SumOver(_, _)
SumOver(f, keys) ==
    IF keys = {} THEN 0
    ELSE LET k == CHOOSE x \in keys : TRUE IN f[k] + SumOver(f, keys \ {k})

RECURSIVE DominantFacial(_, _, _, _)
DominantFacial(timeline, keys, k, best) ==
    LET labels == [i \in 1..Len(timeline) |-> timeline[i].dominant_emotion]
        better ==
            \/ CountOf(labels, keys[k]) > CountOf(labels, best)
            \/ /\ CountOf(labels, keys[k]) = CountOf(labels, best)
               /\ SumConfidence(timeline, keys[k]) > SumConfidence(timeline, best)
    IN IF k > Len(keys) THEN best
       ELSE DominantFacial(timeline, keys, k + 1, IF better THEN keys[k] ELSE best)

aggregate_emotions(timeline) ==
    LET labels == [i \in 1..Len(timeline) |-> timeline[i].dominant_emotion]
        keys == CounterKeys(labels)
        dominant == DominantFacial(timeline, keys, 2, keys[1])
        floors == [e \in SeqToSet(keys) |->
                      (100 * CountOf(labels, e)) \div Len(timeline)]
    IN [dominant_emotion |-> dominant,
        confidence |-> <<SumConfidence(timeline, dominant), CountOf(labels, dominant)>>,
        timeline |-> timeline,
        distribution |->
            [e \in SeqToSet(keys) |->
                IF e = dominant
                THEN floors[e] + 100 - SumOver(floors, SeqToSet(keys))
                ELSE floors[e]]]

(***************************************************************************)
(* POST /assessment: process_voice_assessment_submission, lines 255-360    *)
(***************************************************************************)
\* json.loads(assessment_json): the decoded payload
VoiceData(resps, startTime, endTime) ==
    [responses |-> resps, startTime |-> startTime, endTime |-> endTime]

Payloads ==
    { VoiceData(<< TextResponse(<<"f", "i", "n", "e">>) >>, 3500, 1000),
      VoiceData(<< TextResponse(Bucket3[1]), NotDictResponse >>, 0, 0) }

\* what the TextBlob calls of a submission come to: within one submission
\* every call comes to the same, a negative result or an exception
SubmissionTextBlob == {TextBlobReturns(-4, 5), TextBlobRaises}

\* int(x / 1000): truncation toward zero
IntDiv1000(x) == IF x >= 0 THEN x \div 1000 ELSE -((-x) \div 1000)

\* ' '.join([r.get('response', '') for r in responses])
FullTranscript(resps) ==
    JoinSpace([k \in 1..Len(resps) |-> GetResponse(resps[k])])

\* lines 308-319: the timelines of the session dict are aggregated
WithEmotions(a, session_data) ==
    LET f == aggregate_emotions(session_data.facial_timeline)
        a1 == IF session_data.facial_timeline # <<>>
              THEN [a EXCEPT !.facial_dominant_emotion = f.dominant_emotion,
                             !.facial_emotion_confidence = Some(f.confidence),
                             !.facial_timeline = f.timeline,
                             !.emotion_distribution = f.distribution]
              ELSE a
    IN IF session_data.vocal_timeline # <<>>
       THEN [a1 EXCEPT !.vocal_dominant_emotion =
                          aggregate_vocal_emotions(session_data.vocal_timeline)]
       ELSE a1

\* lines 321-327, with sent the result of analyze_sentiment
WithTranscript(a, resps, sent) ==
    IF FullTranscript(resps) # <<>>
    THEN [a EXCEPT !.transcribed_text = FullTranscript(resps),
                   !.sentiment_polarity = Some(sent.polarity),
                   !.sentiment_subjectivity = Some(sent.subjectivity)]
    ELSE a

\* lines 329-332
WithDuration(a, voice_data) ==
    IF voice_data.startTime # 0 /\ voice_data.endTime # 0
    THEN [a EXCEPT !.session_duration =
                      Some(IntDiv1000(voice_data.endTime - voice_data.startTime))]
    ELSE a

\* lines 334-337
WithRecommendations(a) ==
    LET result == generate_recommendations(a)
    IN [a EXCEPT !.severity_level = result.severity,
                 !.recommendations = result.recommendations]

FlashExpired == "flash:Session expired. Please start a new assessment."
FlashNoData == "flash:No assessment data received"
FlashError == "flash:An error occurred processing your assessment."
FlashSuccess == "flash:Voice assessment completed successfully!"

\* lines 258-261: no session id in the cookie, or the session is unknown
SubmitNoSession(u) ==
    /\ NoSuchSession(cookie[u])
    /\ out' = FlashExpired
    /\ UNCHANGED <<now, active_sessions, objects, cookie, req, ev, db>>

\* lines 266-268, 350-352: the form has no assessment_data
SubmitNoData(u) ==
    /\ ~NoSuchSession(cookie[u])
    /\ out' = FlashNoData
    /\ UNCHANGED <<now, active_sessions, objects, cookie, req, ev, db>>

\* line 269, 354-360: json.loads raises on the form value
SubmitBadJson(u) ==
    /\ ~NoSuchSession(cookie[u])
    /\ out' = FlashError
    /\ UNCHANGED <<now, active_sessions, objects, cookie, req, ev, db>>

\* the assessments lines 272-337 can build from the payload and the
\* session dict when the TextBlob calls come to one of textblob
BuildAssessment(user_id, voice_data, session_data, textblob) ==
    {WithRecommendations(
       WithDuration(
         WithTranscript(WithEmotions(a, session_data), voice_data.responses, sent),
         voice_data)) :
       a \in ScoreResponses(NewAssessment(user_id), voice_data.responses, textblob),
       sent \in AnalyzeSentiment(FullTranscript(voice_data.responses), textblob)}

\* the submissions in db.session.commit()
Committing == {r \in DOMAIN req : req[r].pc = "commit"}

\* room for one more row
CommitBudget == Len(db) + Cardinality(Committing) < MaxAssessments

\* lines 258-341: the checks pass, the assessment is built and added, and
\* the request waits in db.session.commit()
SubmitPrepare(r, u, voice_data) ==
    /\ req[r].pc = "idle"
    /\ CommitBudget
    /\ ~NoSuchSession(cookie[u])
    /\ ~ResponsesRaise(voice_data.responses)
    /\ \E sent \in SubmissionTextBlob :
       \E a \in BuildAssessment(u, voice_data,
                                 objects[active_sessions[cookie[u]]], {sent}) :
          req' = [req EXCEPT ![r] =
                    [pc |-> "commit", user |-> u, session_id |-> cookie[u],
                     session_data |-> active_sessions[cookie[u]],
                     new_assessment |-> Some(a)]]
    /\ out' = "none"
    /\ UNCHANGED <<now, active_sessions, objects, cookie, ev, db>>

\* lines 279-280, 322, 354-360: an element of responses has no .get, the
\* exception is caught and the transaction rolled back
SubmitRaises(u, voice_data) ==
    /\ ~NoSuchSession(cookie[u])
    /\ ResponsesRaise(voice_data.responses)
    /\ out' = FlashError
    /\ UNCHANGED <<now, active_sessions, objects, cookie, req, ev, db>>

\* lines 341-348: the commit succeeds, then the session is cleared; the
\* row records, for the properties only, the session dict it came from
SubmitCommit(r) ==
    /\ req[r].pc = "commit"
    /\ db' = Append(db, [row |-> Value(req[r].new_assessment),
                         of |-> req[r].session_data])
    /\ active_sessions' = clear_session_data(active_sessions, req[r].session_id)
    /\ cookie' = [cookie EXCEPT ![req[r].user] = Absent]
    /\ req' = [req EXCEPT ![r] = IdleRequest]
    /\ out' = FlashSuccess
    /\ UNCHANGED <<now, objects, ev>>

\* a failed commit that also clears the session
SubmitCommitFailsClears(r) ==
    /\ req[r].pc = "commit"
    /\ active_sessions' = clear_session_data(active_sessions, req[r].session_id)
    /\ req' = [req EXCEPT ![r] = IdleRequest]
    /\ out' = FlashError
    /\ UNCHANGED <<now, objects, cookie, ev, db>>

\* lines 341, 354-360: the commit raises and is rolled back
SubmitCommitFails(r) ==
    /\ req[r].pc = "commit"
    /\ req' = [req EXCEPT ![r] = IdleRequest]
    /\ out' = FlashError
    /\ UNCHANGED <<now, active_sessions, objects, cookie, ev, db>>

(***************************************************************************)
(* Specifications                                                          *)
(***************************************************************************)
SessionIdArgs == SessionIds \cup {Absent}

\* the variables of the single-function specifications
pureVars == <<scoreVars, vocalVars, recVars, loopVars, stressVars, cardioVars>>

\* the server
Init ==
    /\ InitServer
    /\ ScoreIdle /\ VocalIdle /\ RecommendIdle /\ LoopIdle /\ StressIdle /\ CardioIdle

Next ==
    \/ Tick /\ UNCHANGED pureVars
    \/ \E u \in Users : StartAssessment(u) /\ UNCHANGED pureVars
    \/ \E session_id \in SessionIdArgs :
          JoinAssessment(session_id) /\ UNCHANGED pureVars
    \/ \E h \in DOMAIN ev, session_id \in SessionIdArgs, ts \in Timestamps :
          VideoFrameBegin(h, session_id, ts) /\ UNCHANGED pureVars
    \/ \E h \in DOMAIN ev : VideoFrameEnd(h) /\ UNCHANGED pureVars
    \/ \E h \in DOMAIN ev : VideoFrameNoResult(h) /\ UNCHANGED pureVars
    \/ \E h \in DOMAIN ev, session_id \in SessionIdArgs :
          AudioChunkBegin(h, session_id) /\ UNCHANGED pureVars
    \/ \E h \in DOMAIN ev : AudioChunkEnd(h) /\ UNCHANGED pureVars
    \/ \E h \in DOMAIN ev, session_id \in SessionIdArgs, text \in EventTexts :
          AnalyzeTextBegin(h, session_id, text) /\ UNCHANGED pureVars
    \/ \E h \in DOMAIN ev : AnalyzeTextEnd(h) /\ UNCHANGED pureVars
    \/ \E u \in Users : SubmitNoSession(u) /\ UNCHANGED pureVars
    \/ \E u \in Users : SubmitNoData(u) /\ UNCHANGED pureVars
    \/ \E u \in Users : SubmitBadJson(u) /\ UNCHANGED pureVars
    \/ \E r \in DOMAIN req, u \in Users, voice_data \in Payloads :
          SubmitPrepare(r, u, voice_data) /\ UNCHANGED pureVars
    \/ \E u \in Users, voice_data \in Payloads :
          SubmitRaises(u, voice_data) /\ UNCHANGED pureVars
    \/ \E r \in DOMAIN req : SubmitCommit(r) /\ UNCHANGED pureVars
    \/ \E r \in DOMAIN req : SubmitCommitFails(r) /\ UNCHANGED pureVars

Spec == Init /\ [][Next]_vars

ServerIdle == InitServer

\* one response text is scored
InitS ==
    /\ InitScore
    /\ VocalIdle /\ RecommendIdle /\ LoopIdle /\ StressIdle /\ CardioIdle /\ ServerIdle
NextS ==
    ScoreOneResponse
       /\ UNCHANGED <<vocalVars, recVars, loopVars, stressVars, cardioVars, serverVars>>
SpecScore == InitS /\ [][NextS]_vars

\* one vocal timeline is aggregated
InitV ==
    /\ InitVocal
    /\ ScoreIdle /\ RecommendIdle /\ LoopIdle /\ StressIdle /\ CardioIdle /\ ServerIdle
NextV ==
    AggregateVocal
       /\ UNCHANGED <<scoreVars, recVars, loopVars, stressVars, cardioVars, serverVars>>
SpecVocal == InitV /\ [][NextV]_vars

\* the recommendations of one assessment are generated
InitR ==
    /\ InitRecommend
    /\ ScoreIdle /\ VocalIdle /\ LoopIdle /\ StressIdle /\ CardioIdle /\ ServerIdle
NextR ==
    GenerateRecommendations
       /\ UNCHANGED <<scoreVars, vocalVars, loopVars, stressVars, cardioVars, serverVars>>
SpecRecommend == InitR /\ [][NextR]_vars

\* the responses of one payload are scored
InitL ==
    /\ InitLoop
    /\ ScoreIdle /\ VocalIdle /\ RecommendIdle /\ StressIdle /\ CardioIdle /\ ServerIdle
NextL ==
    ScoreLoop
       /\ UNCHANGED <<scoreVars, vocalVars, recVars, stressVars, cardioVars, serverVars>>
SpecLoop == InitL /\ [][NextL]_vars

\* one metrics block is classified
InitT ==
    /\ InitStress
    /\ ScoreIdle /\ VocalIdle /\ RecommendIdle /\ LoopIdle /\ CardioIdle /\ ServerIdle
NextT ==
    ClassifyStress
       /\ UNCHANGED <<scoreVars, vocalVars, recVars, loopVars, cardioVars, serverVars>>
SpecStress == InitT /\ [][NextT]_vars

\* one heart rate file is analysed
InitC ==
    /\ InitCardio
    /\ ScoreIdle /\ VocalIdle /\ RecommendIdle /\ LoopIdle /\ StressIdle /\ ServerIdle
NextC ==
    AnalyzeCardiovascular
       /\ UNCHANGED <<scoreVars, vocalVars, recVars, loopVars, stressVars, serverVars>>
SpecCardio == InitC /\ [][NextC]_vars

\* the server with two socket handlers in progress together
InitEventServer ==
    /\ now = 0
    /\ active_sessions = [id \in {} |-> 0]
    /\ objects = <<>>
    /\ cookie = [u \in Users |-> Absent]
    /\ req = [r \in EventRequests |-> IdleRequest]
    /\ ev = [h \in EventHandlers |-> IdleHandler]
    /\ db = <<>>
    /\ out = "none"

InitE ==
    /\ InitEventServer
    /\ ScoreIdle /\ VocalIdle /\ RecommendIdle /\ LoopIdle /\ StressIdle /\ CardioIdle
SpecEvents == InitE /\ [][Next]_vars

(***************************************************************************)
(* Properties                                                              *)
(***************************************************************************)
\* word occurs in text whatever the case of either
OccursIgnoringCase(text, word) ==
    \E off \in 0..(Len(text) - Len(word)) :
        \A k \in 1..Len(word) : LowerChar(text[off + k]) = LowerChar(word[k])

Buckets == <<Bucket0, Bucket1, Bucket2, Bucket3>>

\* the buckets (0..3) of which a keyword occurs in the text
BucketsHit(text) ==
    {b \in 0..3 : \E k \in 1..Len(Buckets[b + 1]) :
                      OccursIgnoringCase(text, Buckets[b + 1][k])}

Least(S) == CHOOSE x \in S : \A y \in S : x <= y

\* C1: the severity band of a total in 0..27 is None-Minimal up to 4, Mild
\* from 5 to 9, Moderate from 10 to 14, Moderately Severe from 15 to 19 and
\* Severe from 20 on; the rank of the band is the number of the thresholds
\* 4, 9, 14, 19 below the total, so it never decreases as the total grows.
BandRank(band) ==
    CASE band = "None-Minimal" -> 0
      [] band = "Mild" -> 1
      [] band = "Moderate" -> 2
      [] band = "Moderately Severe" -> 3
      [] band = "Severe" -> 4

C1_SeverityBands ==
    severity # None =>
        LET total == assessment.phq9_total IN
        /\ total \in 0..27
        /\ total <= 4 => severity = "None-Minimal"
        /\ (5 <= total /\ total <= 9) => severity = "Mild"
        /\ (10 <= total /\ total <= 14) => severity = "Moderate"
        /\ (15 <= total /\ total <= 19) => severity = "Moderately Severe"
        /\ total >= 20 => severity = "Severe"
        /\ BandRank(severity) = Cardinality({th \in {4, 9, 14, 19} : total > th})

C1_Witness == severity = "Moderately Severe" /\ assessment.phq9_total = 19

\* C2: the score of a response is the number of the first bucket of which a
\* keyword occurs in the text, case ignored, later buckets notwithstanding;
\* when no bucket has one, analyze_sentiment is called and the score is 2
\* for a polarity below -0.3, 0 for one above 0.3 and 1 otherwise.
C2_FirstBucketWins ==
    score # Absent =>
        IF BucketsHit(response_text) # {}
        THEN /\ Value(score) = Least(BucketsHit(response_text))
             /\ sentiment = Absent
        ELSE /\ sentiment # Absent
             /\ Value(sentiment).polarity < -3 => Value(score) = 2
             /\ Value(sentiment).polarity > 3 => Value(score) = 0
             /\ (Value(sentiment).polarity >= -3 /\ Value(sentiment).polarity <= 3)
                   => Value(score) = 1

\* "always never": a keyword of the last bucket before one of the first
C2_Witness ==
    /\ response_text = JoinSpace(<<Bucket3[1], Bucket0[1]>>)
    /\ score = Some(0)

\* C3 as stated: "I feel alright, nothing special" matches no bucket, so
\* analyze_sentiment is called and with polarity 0.0 the score is 1.
C3_AlrightScoresOne ==
    (response_text = ExampleAlright /\ score # Absent) =>
        /\ sentiment # Absent
        /\ Value(sentiment).polarity = 0 => score = Some(1)

\* C3 amended: "I feel alright, nothing special" matches the first bucket,
\* "no" being a substring of "nothing": analyze_sentiment is not called and
\* the score is 0.
C3_AlrightScoresZero ==
    (response_text = ExampleAlright /\ score # Absent) =>
        /\ 0 \in BucketsHit(ExampleAlright)
        /\ sentiment = Absent
        /\ score = Some(0)

C3_Witness == response_text = ExampleAlright /\ score = Some(0)

\* the scores C2 allows for one element of responses
AllowedScores(response_data) ==
    LET text == GetResponse(response_data) IN
    IF BucketsHit(text) # {} THEN {Least(BucketsHit(text))}
    ELSE IF IsBlank(text) THEN {1}
    ELSE {0, 1, 2}

RECURSIVE SumSeq(_)
SumSeq(q) == IF q = <<>> THEN 0 ELSE Head(q) + SumSeq(Tail(q))

\* C4: after the loop every item is in 0..3; item k is a score of response
\* k alone when there is one (k <= 9) and 0 when there is none, so the
\* responses after the ninth change nothing; phq9_total is the sum of the
\* nine items and is in 0..27.
C4_ItemsAndTotal ==
    scored # Absent =>
        LET a == Value(scored) IN
        /\ DOMAIN a.phq9_q = 1..9
        /\ \A k \in 1..9 :
              /\ a.phq9_q[k] \in 0..3
              /\ k <= Len(responses) => a.phq9_q[k] \in AllowedScores(responses[k])
              /\ k > Len(responses) => a.phq9_q[k] = 0
        /\ a.phq9_total = SumSeq(a.phq9_q)
        /\ a.phq9_total \in 0..27

\* more than nine responses, the ninth scored
C4_Witness ==
    /\ scored # Absent
    /\ Len(responses) > 9
    /\ Value(scored).phq9_q[9] > 0

\* C5 as stated: no two committed rows come from the same session.
C5_OneRowPerSession ==
    \A i, j \in 1..Len(db) : db[i].of = db[j].of => i = j

\* a step in which a submission ends in an error message
SubmissionFailed == out' \in {FlashNoData, FlashError}

\* C6: a step in which a submission fails commits no row and leaves the
\* store, the session dicts and the cookie as they were; a step that takes
\* a session out of the store is one that commits a row.
AllOrNothingStep ==
    /\ SubmissionFailed =>
          (/\ db' = db
           /\ active_sessions' = active_sessions
           /\ objects' = objects
           /\ cookie' = cookie)
    /\ (DOMAIN active_sessions \ DOMAIN active_sessions' # {}) =>
          (/\ Len(db') = Len(db) + 1
           /\ out' = FlashSuccess)

C6_AllOrNothing == [][AllOrNothingStep]_vars

\* a submission has failed on a session that has a vocal timeline, and the
\* session is still there with nothing committed
C6_Witness ==
    /\ out = FlashError
    /\ db = <<>>
    /\ ~NoSuchSession(cookie[1])
    /\ objects[active_sessions[cookie[1]]].vocal_timeline # <<>>

\* C7 as stated: a create adds an id that was not in the store, and so no
\* step replaces the session dict of an id that stays in the store.
FreshIdStep ==
    /\ (Len(objects') > Len(objects)) =>
          (DOMAIN active_sessions' # DOMAIN active_sessions)
    /\ \A id \in DOMAIN active_sessions \cap DOMAIN active_sessions' :
          active_sessions'[id] = active_sessions[id]

C7_FreshId == [][FreshIdStep]_vars

\* a step of create_session_data, and one of a submission that succeeds
CreateStep == Len(objects') = Len(objects) + 1
ConsumeStep(r) ==
    req[r].pc = "commit" /\ req'[r].pc = "idle" /\ Len(db') = Len(db) + 1

\* C8: an id enters the store in a create step, which returns it; it leaves
\* the store in the step of a successful submission of that id; no other
\* step (event, join, failed or rejected submission) changes which ids are
\* in the store.
LifecycleStep ==
    /\ CreateStep =>
          (\E u \in Users :
              /\ cookie'[u] \in DOMAIN active_sessions'
              /\ DOMAIN active_sessions' = DOMAIN active_sessions \cup {cookie'[u]})
    /\ \A r \in Requests :
          ConsumeStep(r) =>
              (DOMAIN active_sessions' = DOMAIN active_sessions \ {req[r].session_id})
    /\ (~CreateStep /\ (\A r \in Requests : ~ConsumeStep(r))) =>
          (DOMAIN active_sessions' = DOMAIN active_sessions)

C8_Lifecycle == [][LifecycleStep]_vars

\* a session was created, got a frame, and was consumed by a submission
C8_Witness ==
    /\ Len(db) = 1
    /\ DOMAIN active_sessions = {}
    /\ Len(objects) = 1
    /\ objects[1].facial_timeline # <<>>

\* C9 as stated: every operation on a session id that is not in the store
\* sends an error to its caller and changes nothing else.
\* a step of a socket handler called with session_id
HandlerCalled(session_id) ==
    \/ JoinAssessment(session_id)
    \/ \E h \in Handlers, ts \in Timestamps : VideoFrameBegin(h, session_id, ts)
    \/ \E h \in Handlers : AudioChunkBegin(h, session_id)
    \/ \E h \in Handlers, text \in EventTexts : AnalyzeTextBegin(h, session_id, text)

NotFoundSurfacedStep ==
    /\ \A session_id \in SessionIdArgs :
          (NoSuchSession(session_id) /\ HandlerCalled(session_id))
              => (out' = "emit:error")
    /\ \A u \in Users :
          (NoSuchSession(cookie[u]) /\ SubmitNoSession(u)) => (out' = FlashExpired)

C9_NotFoundSurfaced == [][NotFoundSurfacedStep]_vars

\* the first occurrence of a label in a timeline
FirstIndex(timeline, x) ==
    Least({k \in 1..Len(timeline) : timeline[k] = x})

\* C10: the empty timeline gives "neutral"; otherwise the label returned
\* occurs in the timeline, no label occurs more often, and of the labels
\* that occur as often none occurs first earlier.
C10_MostFrequentFirst ==
    dominant_vocal # None =>
        IF vocal_timeline = <<>> THEN dominant_vocal = "neutral"
        ELSE /\ dominant_vocal \in SeqToSet(vocal_timeline)
             /\ \A x \in SeqToSet(vocal_timeline) :
                   /\ CountOf(vocal_timeline, x) <= CountOf(vocal_timeline, dominant_vocal)
                   /\ CountOf(vocal_timeline, x) = CountOf(vocal_timeline, dominant_vocal)
                        => FirstIndex(vocal_timeline, dominant_vocal)
                             <= FirstIndex(vocal_timeline, x)

\* a tie of two labels, the one returned seen first
C10_Witness ==
    /\ vocal_timeline = <<"happy", "sad", "sad", "happy">>
    /\ dominant_vocal = "happy"

\* the indices of the lines of the generated text that are the given line
LinesAt(line) == {i \in 1..Len(recommendations) : recommendations[i] = line}

FacialHeader == <<"--- Facial Expression Analysis ---">>
VocalHeader == <<"--- Voice Analysis ---">>
LanguageHeader == <<"--- Language Analysis ---">>
WellnessHeader == <<"--- General Wellness Tips ---">>
CrisisLine == <<"[warning] You indicated thoughts of self-harm. This is serious.">>
BlockHeaders == <<FacialHeader, VocalHeader, LanguageHeader, WellnessHeader>>

\* the first paragraph of a text: its lines before the first blank line
RECURSIVE FirstParagraph(_)
FirstParagraph(lines) ==
    IF lines = <<>> \/ Head(lines) = <<"">> THEN <<>>
    ELSE <<Head(lines)>> \o FirstParagraph(Tail(lines))

\* C11: the generated text starts with the severity guidance; the facial,
\* vocal and language headers each occur once when the assessment has a
\* facial dominant emotion, a vocal dominant emotion, a polarity, and not at
\* all otherwise; the wellness header always occurs once; every header
\* follows a blank line; the headers occur in the order facial, vocal,
\* language, wellness; the wellness block is the last six lines of the text.
C11_BlockOrder ==
    severity # None =>
        LET n == Len(recommendations)
            present == << assessment.facial_dominant_emotion # None,
                          assessment.vocal_dominant_emotion # None,
                          assessment.sentiment_polarity # Absent,
                          TRUE >>
        IN /\ n >= 7
           /\ recommendations[1] # <<"">>
           /\ recommendations[1] \notin SeqToSet(BlockHeaders)
           /\ FirstParagraph(recommendations) # <<>>
           /\ \A b \in 1..4 :
                 /\ Cardinality(LinesAt(BlockHeaders[b]))
                       = (IF present[b] THEN 1 ELSE 0)
                 /\ \A i \in LinesAt(BlockHeaders[b]) :
                       /\ i > Len(FirstParagraph(recommendations)) + 1
                       /\ recommendations[i - 1] = <<"">>
           /\ \A b, c \in 1..4 :
                 b < c => \A i \in LinesAt(BlockHeaders[b]),
                             j \in LinesAt(BlockHeaders[c]) : i < j
           /\ LinesAt(WellnessHeader) = {n - 5}
           /\ \A i \in (n - 5)..n : recommendations[i] # <<"">>

\* all three optional blocks in one text
C11_Witness ==
    /\ severity = "Mild"
    /\ LinesAt(FacialHeader) # {}
    /\ LinesAt(VocalHeader) # {}
    /\ LinesAt(LanguageHeader) # {}
    /\ LinesAt(WellnessHeader) = {Len(recommendations) - 5}

\* the guidance paragraph generated for a total
GuidanceOf(total) ==
    FirstParagraph(generate_recommendations(
        [assessment EXCEPT !.phq9_total = total]).recommendations)

\* C12 as stated: the crisis line is in the text exactly when the band is
\* Severe and item 9 scored at least 1, and the guidance paragraph differs
\* from that of every total of another band.
C12_CrisisOnlySevere ==
    severity # None =>
        /\ (LinesAt(CrisisLine) # {})
              <=> (severity = "Severe" /\ assessment.phq9_q[9] >= 1)
        /\ \A total \in 0..27 :
              Severity(total) # severity
                 => GuidanceOf(total) # FirstParagraph(recommendations)

\* C12, amended: the crisis line is in the text exactly when the total is
\* 15 or more (band Moderately Severe or Severe) and item 9 scored at least
\* 1, and then once, after a blank line and before every header; the guidance
\* paragraph is the same for Moderately Severe and Severe and differs
\* between every two other distinct bands.
C12_CrisisFromFifteen ==
    severity # None =>
        LET high == {"Moderately Severe", "Severe"} IN
        /\ Cardinality(LinesAt(CrisisLine))
              = (IF assessment.phq9_total >= 15 /\ assessment.phq9_q[9] >= 1
                 THEN 1 ELSE 0)
        /\ (LinesAt(CrisisLine) # {}) => severity \in high
        /\ \A i \in LinesAt(CrisisLine) :
              /\ i = Len(FirstParagraph(recommendations)) + 2
              /\ recommendations[i - 1] = <<"">>
        /\ \A total \in 0..27 :
              IF Severity(total) = severity
                 \/ (Severity(total) \in high /\ severity \in high)
              THEN GuidanceOf(total) = FirstParagraph(recommendations)
              ELSE GuidanceOf(total) # FirstParagraph(recommendations)

\* a Moderately Severe assessment with the crisis line
C12_Witness ==
    /\ severity = "Moderately Severe"
    /\ assessment.phq9_q[9] = 1
    /\ LinesAt(CrisisLine) # {}

\* C13: the stress score is the sum of 3 for a mean HR above 90, else 2 for
\* one above 80; 3 for an RMSSD below 15, else 2 for one below 25; and 2 for
\* an SDNN below 40.  There is one indicator for each of mean HR above 90,
\* RMSSD below 15 and SDNN below 40, in that order.  The level is High from
\* 7, Moderate from 4 to 6 and Low below.  Mean HR 95, RMSSD 10 and SDNN 30
\* give the score 8, High and three indicators.
C13_StressClassification ==
    stress # Absent =>
        LET r == Value(stress)
            hr == metrics.mean_hr
            rm == metrics.rmssd
            sd == metrics.sdnn
            gains == << IF hr > 900 THEN 3 ELSE IF hr > 800 THEN 2 ELSE 0,
                        IF rm < 150 THEN 3 ELSE IF rm < 250 THEN 2 ELSE 0,
                        IF sd < 400 THEN 2 ELSE 0 >>
            marks == << <<hr > 900, "Elevated mean HR (">>,
                        <<rm < 150, "Very low HRV (RMSSD: ">>,
                        <<sd < 400, "Low SDNN (">> >>
            shown == {k \in 1..3 : marks[k][1]}
        IN /\ r.stress_score = gains[1] + gains[2] + gains[3]
           /\ Len(r.stress_indicators) = Cardinality(shown)
           /\ \A k \in shown :
                 r.stress_indicators[Cardinality({j \in shown : j <= k})][1]
                    = marks[k][2]
           /\ (r.stress_level = "High") <=> (r.stress_score >= 7)
           /\ (r.stress_level = "Moderate")
                 <=> (4 <= r.stress_score /\ r.stress_score <= 6)
           /\ (r.stress_level = "Low") <=> (r.stress_score < 4)
           /\ (hr = 950 /\ rm = 100 /\ sd = 300)
                 => /\ r.stress_score = 8
                    /\ r.stress_level = "High"
                    /\ Len(r.stress_indicators) = 3

\* the example of the claim, classified
C13_Witness ==
    /\ metrics.mean_hr = 950 /\ metrics.rmssd = 100 /\ metrics.sdnn = 300
    /\ stress # Absent
    /\ Value(stress).stress_score = 8

\* the heart rate column of a header row: the one named heart_rate, else the
\* first whose name has heart or bpm in it whatever the case; 0 without one
HeartRateColumn(columns) ==
    LET exact == {k \in 1..Len(columns) : columns[k] = HeartRateName}
        loose == {k \in 1..Len(columns) :
                     \/ OccursIgnoringCase(columns[k], HeartWord)
                     \/ OccursIgnoringCase(columns[k], BpmWord)}
    IN IF exact # {} THEN Least(exact)
       ELSE IF loose # {} THEN Least(loose)
       ELSE 0

\* the rows of the file with a number in the heart rate column
ValidRows(file) ==
    IF ~file.readable \/ HeartRateColumn(file.columns) = 0 THEN {}
    ELSE {i \in 1..Len(file.rows) :
             file.rows[i][HeartRateColumn(file.columns)].kind = "num"}

\* C14: analyze_cardiovascular_stress returns a result exactly when the file
\* can be read, has a heart rate column and has at least two rows with a
\* number in it; it returns None otherwise; the result counts those rows
\* and its metrics are not a zero-filled block.
C14_FailsClosed ==
    cv_done =>
        /\ (cv_result # Absent) <=> (Cardinality(ValidRows(csv_file)) >= 2)
        /\ cv_result # Absent =>
              /\ Value(cv_result).data_points = Cardinality(ValidRows(csv_file))
              /\ Value(cv_result).metrics.mean_hr > 0
              /\ Value(cv_result).metrics.min_hr > 0

\* a readable file with a heart rate column and one numeric row among
\* three: no result
C14_Witness ==
    /\ cv_done
    /\ cv_result = Absent
    /\ csv_file.readable
    /\ Len(csv_file.rows) = 3
    /\ Cardinality(ValidRows(csv_file)) = 1

\* new is old with one element appended
IsAppend(new, old) ==
    /\ Len(new) = Len(old) + 1
    /\ \A k \in 1..Len(old) : new[k] = old[k]

\* the lists of a session dict are as they were, or one element longer
DictGrows(new, old) ==
    /\ new.facial_timeline = old.facial_timeline
          \/ IsAppend(new.facial_timeline, old.facial_timeline)
    /\ new.vocal_timeline = old.vocal_timeline
          \/ IsAppend(new.vocal_timeline, old.vocal_timeline)
    /\ new.transcribed_texts = old.transcribed_texts
          \/ IsAppend(new.transcribed_texts, old.transcribed_texts)
    /\ new.audio_chunks = old.audio_chunks
          \/ IsAppend(new.audio_chunks, old.audio_chunks)

\* handler h returns in this step, having classified an event of the kind
Completes(h, kind, sent) ==
    /\ ev[h].pc = "analyzing" /\ ev[h].kind = kind
    /\ ev'[h].pc = "idle"
    /\ out' = sent

\* the session dict the handler holds is the one the store has for its id
HoldsSession(h) ==
    /\ ev[h].session_id \in DOMAIN active_sessions
    /\ active_sessions[ev[h].session_id] = ev[h].session_data

\* the step changes no session dict but d, and nothing of the store
OnlyDict(d) ==
    /\ Len(objects') = Len(objects)
    /\ \A i \in 1..Len(objects) : i # d => objects'[i] = objects[i]
    /\ active_sessions' = active_sessions
    /\ db' = db /\ cookie' = cookie /\ req' = req

AppendStep ==
    /\ Len(objects') >= Len(objects)
    /\ \A i \in 1..Len(objects) : DictGrows(objects'[i], objects[i])
    /\ \A h \in DOMAIN ev :
          LET d == ev[h].session_data IN
          /\ (Completes(h, "video_frame", "emit:facial_emotion") /\ HoldsSession(h))
                => /\ IsAppend(objects'[d].facial_timeline, objects[d].facial_timeline)
                   /\ objects'[d].facial_timeline[Len(objects'[d].facial_timeline)].timestamp
                         = ev[h].timestamp
                   /\ objects'[d].vocal_timeline = objects[d].vocal_timeline
                   /\ objects'[d].audio_chunks = objects[d].audio_chunks
                   /\ objects'[d].transcribed_texts = objects[d].transcribed_texts
                   /\ OnlyDict(d)
          /\ (Completes(h, "audio_chunk", "emit:vocal_emotion") /\ HoldsSession(h))
                => /\ IsAppend(objects'[d].vocal_timeline, objects[d].vocal_timeline)
                   /\ IsAppend(objects'[d].audio_chunks, objects[d].audio_chunks)
                   /\ objects'[d].facial_timeline = objects[d].facial_timeline
                   /\ objects'[d].transcribed_texts = objects[d].transcribed_texts
                   /\ OnlyDict(d)
          /\ (ev[h].pc = "idle" /\ ev'[h].pc = "analyzing"
                 /\ ev'[h].kind = "analyze_text")
                => LET t == ev'[h].session_data IN
                   /\ IsAppend(objects'[t].transcribed_texts, objects[t].transcribed_texts)
                   /\ objects'[t].transcribed_texts[Len(objects'[t].transcribed_texts)]
                         = ev'[h].data
                   /\ objects'[t].facial_timeline = objects[t].facial_timeline
                   /\ objects'[t].vocal_timeline = objects[t].vocal_timeline
                   /\ objects'[t].audio_chunks = objects[t].audio_chunks
                   /\ OnlyDict(t)
          /\ (ev[h].pc = "analyzing" /\ ev[h].kind = "analyze_text"
                 /\ ev'[h].pc = "idle")
                => objects' = objects

Permuted(timeline, p) == [k \in 1..Len(timeline) |-> timeline[p[k]]]

\* the labels that occur most often in a timeline
MostFrequent(timeline) ==
    {x \in SeqToSet(timeline) :
        \A y \in SeqToSet(timeline) : CountOf(timeline, y) <= CountOf(timeline, x)}

\* C16 as stated: every arrival order of the same vocal events gives the
\* same dominant vocal emotion, and so does a second call on the timeline.
C16_OrderIndependent ==
    dominant_vocal # None =>
        /\ \A p \in Permutations(1..Len(vocal_timeline)) :
              aggregate_vocal_emotions(Permuted(vocal_timeline, p)) = dominant_vocal
        /\ aggregate_vocal_emotions(vocal_timeline) = dominant_vocal

\* C16, amended: every arrival order of the same vocal events gives a label
\* that occurs most often, namely the one of them that comes first in that
\* order; so every order gives the same label when one label occurs more
\* often than every other, and a tie goes to a label that depends on the
\* order.  A second call on the same timeline gives the same label.
C16_OrderIndependentUpToTies ==
    dominant_vocal # None =>
        /\ \A p \in Permutations(1..Len(vocal_timeline)) :
              LET arrived == Permuted(vocal_timeline, p)
                  label == aggregate_vocal_emotions(arrived)
              IN IF arrived = <<>> THEN label = "neutral"
                 ELSE /\ label \in MostFrequent(vocal_timeline)
                      /\ \A x \in MostFrequent(vocal_timeline) :
                            FirstIndex(arrived, label) <= FirstIndex(arrived, x)
                      /\ Cardinality(MostFrequent(vocal_timeline)) = 1
                            => label = dominant_vocal
        /\ aggregate_vocal_emotions(vocal_timeline) = dominant_vocal

\* a tie of two labels: the other arrival order gives the other label
C16_Witness ==
    /\ vocal_timeline = <<"happy", "sad">>
    /\ dominant_vocal = "happy"
    /\ aggregate_vocal_emotions(<<"sad", "happy">>) = "sad"

\* texts that match no keyword bucket: empty, blank, and one with a word
UnmatchedTexts == {<<>>, <<" ">>, <<" ", "\t", "\n">>, <<"f", "i", "n", "e">>}

DegradeStep ==
    /\ \A h \in DOMAIN ev :
          /\ (ev[h].pc = "analyzing" /\ ev'[h].pc = "idle")
                => /\ active_sessions' = active_sessions
                   /\ Len(objects') = Len(objects)
                   /\ cookie' = cookie /\ db' = db /\ req' = req
                   /\ ev'[h] = IdleHandler
                   /\ out' \notin {FlashExpired, FlashError, "emit:error"}
          /\ VideoFrameNoResult(h) => objects' = objects
          /\ AudioChunkReturns(h, AudioFailed)
                => LET d == ev[h].session_data IN
                   /\ IsAppend(objects'[d].vocal_timeline, objects[d].vocal_timeline)
                   /\ objects'[d].vocal_timeline[Len(objects'[d].vocal_timeline)]
                         = "neutral"
    /\ (\E h \in DOMAIN ev : AnalyzeTextEnd(h))
          => \A text \in UnmatchedTexts, blob \in TextBlobResults :
                /\ IsBlank(text)
                      => analyze_sentiment(text, blob)
                            = [polarity |-> 2, subjectivity |-> 2]
                /\ (~IsBlank(text) /\ blob.raised)
                      => analyze_sentiment(text, blob)
                            = [polarity |-> 0, subjectivity |-> 0]
                /\ (IsBlank(text) \/ blob.raised)
                      => /\ NeedsSentiment(text)
                         /\ ScoreResponse(text, analyze_sentiment(Lower(text), blob)) = 1
    /\ \A r \in DOMAIN req :
          (req[r].pc = "idle" /\ req'[r].pc = "commit")
             => LET a == Value(req'[r].new_assessment)
                    session_data == objects[req'[r].session_data]
                IN /\ (session_data.vocal_timeline # <<>>
                         /\ \A k \in 1..Len(session_data.vocal_timeline) :
                               session_data.vocal_timeline[k] = "neutral")
                      => a.vocal_dominant_emotion = "neutral"
                   /\ a.sentiment_polarity \in {Absent, Some(-4), Some(0), Some(2)}

\* C17: the step in which a socket handler returns, whatever its classifier
\* came to, leaves every session in the store, removes no session dict,
\* touches no request and no row, sends no error, and leaves the handler
\* ready for the next event; a frame whose classification fails appends
\* nothing; an audio chunk whose classification fails appends "neutral" to
\* the vocal timeline; the analyze_sentiment the text handler calls gives
\* 0.2 / 0.2 for an empty or blank text and 0.0 / 0.0 when the TextBlob call
\* raises, and a response text that matches no keyword scores 1 in both
\* cases; a submission made after such failures is accepted and built from
\* these defaults.
C17_DegradesToNeutral == [][DegradeStep]_vars

\* a row committed for a session whose only audio chunk failed to classify
\* and whose sentiment calls raised
C17_Witness ==
    /\ Len(db) = 1
    /\ db[1].row.vocal_dominant_emotion = "neutral"
    /\ db[1].row.sentiment_polarity = Some(0)
    /\ db[1].row.phq9_q[1] = 1
    /\ db[1].row.phq9_total = 1

====
